---- MODULE Spec2Model ----
(***************************************************************************)
(* Smart-meter gateway facades of emh-casa-go (EMH CASA, Theben Conexa,    *)
(* PPC): meter-identity discovery, the readings fetch and the assembly of  *)
(* raw entries into an Information.                                        *)
(*                                                                         *)
(* Go strings are modelled as sequences of one-character strings, so that  *)
(* conversions (hex parsing, decimal formatting, splitting) are computed   *)
(* and not assumed.  float64 values are modelled as exact decimals         *)
(* [m, e] = m * 10^e, normalised so that equal numbers are equal records.  *)
(* One call of a facade method is a sequence of steps, one per network     *)
(* round trip; pc is the position of the call in progress.                 *)
(***************************************************************************)
EXTENDS Integers, Sequences, FiniteSets, TLC

\* ------------------------------------------------------------------ bounds
MaxContracts == 2
MaxUsagePoints == 3
MaxEntries == 3
MaxInputs == 2
MaxScaler == 2

\* ------------------------------------------------------- program constants
UnitNone == 0
UnitWatt == 27
UnitWh == 30
UnitAmpere == 33
UnitVolt == 35
UnitHertz == 44
QualityGood == 0

\* ------------------------------------------------------------ Go strings
Range(s) == {s[i] : i \in 1..Len(s)}

\* strings.Index for a one-character separator: 0 when absent
IndexOf(s, c) ==
  IF \E i \in 1..Len(s) : s[i] = c
  THEN CHOOSE i \in 1..Len(s) : s[i] = c /\ \A j \in 1..(i-1) : s[j] # c
  ELSE 0

\* mutant: the logical name is not cut at its first dot
BeforeFirst_Whole(s, c) == s

\* strings.SplitN(s, c, 2)[0]
BeforeFirst(s, c) ==
  IF IndexOf(s, c) = 0 THEN s ELSE SubSeq(s, 1, IndexOf(s, c) - 1)

\* strings.Split(s, c)
RECURSIVE Split(_, _)
Split(s, c) ==
  IF IndexOf(s, c) = 0 THEN <<s>>
  ELSE <<SubSeq(s, 1, IndexOf(s, c) - 1)>> \o Split(SubSeq(s, IndexOf(s, c) + 1, Len(s)), c)

\* strings.Contains(s, sub)
Contains(s, sub) ==
  \E i \in 1..(Len(s) - Len(sub) + 1) : SubSeq(s, i, i + Len(sub) - 1) = sub

LowerChar(c) ==
  CASE c = "A" -> "a" [] c = "B" -> "b" [] c = "C" -> "c"
    [] c = "D" -> "d" [] c = "E" -> "e" [] c = "F" -> "f"
    [] OTHER -> c

\* strings.ToLower over the characters the model uses
ToLower(s) == [i \in 1..Len(s) |-> LowerChar(s[i])]

\* strings.TrimSpace
RECURSIVE TrimSpace(_)
TrimSpace(s) ==
  IF Len(s) = 0 THEN s
  ELSE IF s[1] = " " THEN TrimSpace(Tail(s))
  ELSE IF s[Len(s)] = " " THEN TrimSpace(SubSeq(s, 1, Len(s) - 1))
  ELSE s

DigitVal(c) ==
  CASE c = "0" -> 0 [] c = "1" -> 1 [] c = "2" -> 2 [] c = "3" -> 3
    [] c = "4" -> 4 [] c = "5" -> 5 [] c = "6" -> 6 [] c = "7" -> 7
    [] c = "8" -> 8 [] c = "9" -> 9 [] OTHER -> -1

HexVal(c) ==
  CASE DigitVal(c) >= 0 -> DigitVal(c)
    [] LowerChar(c) = "a" -> 10 [] LowerChar(c) = "b" -> 11
    [] LowerChar(c) = "c" -> 12 [] LowerChar(c) = "d" -> 13
    [] LowerChar(c) = "e" -> 14 [] LowerChar(c) = "f" -> 15
    [] OTHER -> -1

DigitChar(d) ==
  CASE d = 0 -> "0" [] d = 1 -> "1" [] d = 2 -> "2" [] d = 3 -> "3"
    [] d = 4 -> "4" [] d = 5 -> "5" [] d = 6 -> "6" [] d = 7 -> "7"
    [] d = 8 -> "8" [] OTHER -> "9"

RECURSIVE HexNum(_)
HexNum(s) == IF Len(s) = 0 THEN 0 ELSE 16 * HexNum(SubSeq(s, 1, Len(s) - 1)) + HexVal(s[Len(s)])

RECURSIVE DecNum(_)
DecNum(s) == IF Len(s) = 0 THEN 0 ELSE 10 * DecNum(SubSeq(s, 1, Len(s) - 1)) + DigitVal(s[Len(s)])

\* strconv.ParseInt(s, 16, 64): an optional sign, then one or more hex digits
ParseInt16(s) ==
  LET signed == Len(s) > 0 /\ s[1] \in {"+", "-"}
      digits == IF signed THEN Tail(s) ELSE s
      ok     == Len(digits) > 0 /\ \A i \in 1..Len(digits) : HexVal(digits[i]) >= 0
  IN IF ~ok THEN [err |-> TRUE, val |-> 0]
     ELSE [err |-> FALSE,
           val |-> IF signed /\ s[1] = "-" THEN 0 - HexNum(digits) ELSE HexNum(digits)]

RECURSIVE NatToStr(_)
NatToStr(n) == IF n < 10 THEN <<DigitChar(n)>> ELSE NatToStr(n \div 10) \o <<DigitChar(n % 10)>>

\* fmt's %d
IntToStr(n) == IF n < 0 THEN <<"-">> \o NatToStr(0 - n) ELSE NatToStr(n)

\* ------------------------------------------------------- decimal numbers
RECURSIVE Dec(_, _)
Dec(m, e) ==
  IF m = 0 THEN [m |-> 0, e |-> 0]
  ELSE IF m % 10 = 0 THEN Dec(m \div 10, e + 1)
  ELSE [m |-> m, e |-> e]

\* v * 10^s (and v / 10^k as Scale(v, -k))
Scale(v, s) == Dec(v.m, v.e + s)

\* strconv.ParseFloat(s, 64) on the plain decimal forms: an optional sign,
\* digits with at most one '.', at least one digit.  The inputs of the model
\* use no exponent, hexadecimal, underscore, "inf" or "nan" form.
ParseFloat(s) ==
  LET signed == Len(s) > 0 /\ s[1] \in {"+", "-"}
      body   == IF signed THEN Tail(s) ELSE s
      dot    == IndexOf(body, ".")
      ip     == IF dot = 0 THEN body ELSE SubSeq(body, 1, dot - 1)
      fp     == IF dot = 0 THEN << >> ELSE SubSeq(body, dot + 1, Len(body))
      ok     == /\ Len(ip) + Len(fp) > 0
                /\ \A i \in 1..Len(ip) : DigitVal(ip[i]) >= 0
                /\ \A i \in 1..Len(fp) : DigitVal(fp[i]) >= 0
      mag    == DecNum(ip \o fp)
  IN IF ~ok THEN [err |-> TRUE, val |-> Dec(0, 0)]
     ELSE [err |-> FALSE,
           val |-> Dec(IF signed /\ s[1] = "-" THEN 0 - mag ELSE mag, 0 - Len(fp))]

\* first index >= i whose character is no decimal digit (Len(s)+1 when none)
RECURSIVE SkipDigits(_, _)
SkipDigits(s, i) ==
  IF i <= Len(s) /\ DigitVal(s[i]) >= 0 THEN SkipDigits(s, i + 1) ELSE i

RECURSIVE SkipSpaces(_, _)
SkipSpaces(s, i) == IF i <= Len(s) /\ s[i] = " " THEN SkipSpaces(s, i + 1) ELSE i

\* fmt.Sscanf(s, "%f", &v): leading blanks are skipped, the longest prefix
\* of the form sign? digits* ('.' digits*)? is the token, and what follows
\* the token is left unread
Sscanf(s) ==
  LET a == SkipSpaces(s, 1)
      b == IF a <= Len(s) /\ s[a] \in {"+", "-"} THEN a + 1 ELSE a
      c == SkipDigits(s, b)
      d == IF c <= Len(s) /\ s[c] = "." THEN SkipDigits(s, c + 1) ELSE c
  IN ParseFloat(SubSeq(s, a, d - 1))

\* ------------------------------------------------------------ readings map
\* map[string]smgwreader.Reading: a function from codes to readings
EmptyReadings == [k \in {} |-> 0]

\* mutant: a code that is in the map already keeps its reading
Put_KeepsFirst(m, k, r) ==
  IF k \in DOMAIN m THEN m
  ELSE [x \in (DOMAIN m) \cup {k} |-> IF x = k THEN r ELSE m[x]]

\* readings[k] = r
Put(m, k, r) == [x \in (DOMAIN m) \cup {k} |-> IF x = k THEN r ELSE m[x]]

\* mutant: the reading does not carry its code
Reading_WithoutCode(value, unit, obis) ==
  [Value |-> value, Unit |-> unit, OBIS |-> << >>, Quality |-> QualityGood]

\* smgwreader.Reading (the capture time is not modelled)
Reading(value, unit, obis) ==
  [Value |-> value, Unit |-> unit, OBIS |-> obis, Quality |-> QualityGood]

\* smgwreader.Information (LastUpdate is not modelled)
Information(name, model, manufacturer, firmware, readings) ==
  [Name |-> name, Model |-> model, Manufacturer |-> manufacturer,
   FirmwareVersion |-> firmware, Readings |-> readings]

\* ------------------------------------------------------------- EMH CASA
\* mutant: the bytes are taken one byte early (hex[2:4], hex[4:6], hex[6:8])
convertToOBIS_ShiftedOffsets(logicalName) ==
  LET hex == BeforeFirst(logicalName, ".")
      c   == ParseInt16(SubSeq(hex, 3, 4))
      d   == ParseInt16(SubSeq(hex, 5, 6))
      e   == ParseInt16(SubSeq(hex, 7, 8))
  IN IF Len(hex) # 12 THEN [err |-> TRUE, obis |-> << >>]
     ELSE IF c.err \/ d.err \/ e.err THEN [err |-> TRUE, obis |-> << >>]
     ELSE [err |-> FALSE,
           obis |-> IntToStr(c.val) \o <<".">> \o IntToStr(d.val) \o <<".">> \o IntToStr(e.val)]

\* emhcasa.convertToOBIS
convertToOBIS(logicalName) ==
  LET hex == BeforeFirst(logicalName, ".")
      c   == ParseInt16(SubSeq(hex, 5, 6))
      d   == ParseInt16(SubSeq(hex, 7, 8))
      e   == ParseInt16(SubSeq(hex, 9, 10))
  IN IF Len(hex) # 12 THEN [err |-> TRUE, obis |-> << >>]
     ELSE IF c.err \/ d.err \/ e.err THEN [err |-> TRUE, obis |-> << >>]
     ELSE [err |-> FALSE,
           obis |-> IntToStr(c.val) \o <<".">> \o IntToStr(d.val) \o <<".">> \o IntToStr(e.val)]

\* mutant: the unit tag is copied into the reading as it is
EmhUnit_PassThrough(tag) == tag

\* the unit switch of emhcasa.Client.convertReading: a tag outside the table
\* leaves the zero Unit
EmhUnit(tag) ==
  IF tag \in {UnitWatt, UnitWh, UnitAmpere, UnitVolt, UnitHertz} THEN tag ELSE UnitNone

\* mutant: the value in Wh is not divided by 1000
convertReading_NoWhDivision(item, obis) ==
  LET parsed == ParseFloat(item.Value)
      raw    == IF parsed.err THEN Dec(0, 0) ELSE parsed.val
  IN Reading(Scale(raw, item.Scaler), EmhUnit(item.Unit), obis)

\* emhcasa.Client.convertReading: the error of ParseFloat is discarded, raw
\* is then the zero value
convertReading(item, obis) ==
  LET parsed == ParseFloat(item.Value)
      raw    == IF parsed.err THEN Dec(0, 0) ELSE parsed.val
      val    == Scale(raw, item.Scaler)
  IN Reading(IF item.Unit = UnitWh THEN Scale(val, -3) ELSE val, EmhUnit(item.Unit), obis)

\* the loop of emhcasa.Client.GetReadings over reading.Values
RECURSIVE EmhAssemble(_, _)
EmhAssemble(values, readings) ==
  IF Len(values) = 0 THEN readings
  ELSE LET item == Head(values)
           conv == convertToOBIS(item.LogicalName)
       IN IF conv.err THEN EmhAssemble(Tail(values), readings)
          ELSE EmhAssemble(Tail(values), Put(readings, conv.obis, convertReading(item, conv.obis)))

\* --------------------------------------------------------------- Theben
ThebenHex(cc, d) == <<"0", "1", "0", "0">> \o cc \o <<"0", d, "0", "0", "f", "f">>
ThebenCode(c, d) == <<"1", "-", "0", ":">> \o c \o <<".", d, ".", "0">>

\* the mappings table of theben.Client.convertOBIS
ThebenMappings ==
  { <<ThebenHex(<<"0", "1">>, "8"), ThebenCode(<<"1">>, "8")>>,
    <<ThebenHex(<<"0", "2">>, "8"), ThebenCode(<<"2">>, "8")>>,
    <<ThebenHex(<<"1", "0">>, "7"), ThebenCode(<<"1", "6">>, "7")>>,
    <<ThebenHex(<<"1", "f">>, "7"), ThebenCode(<<"3", "1">>, "7")>>,
    <<ThebenHex(<<"2", "0">>, "7"), ThebenCode(<<"3", "2">>, "7")>>,
    <<ThebenHex(<<"2", "4">>, "7"), ThebenCode(<<"3", "6">>, "7")>>,
    <<ThebenHex(<<"3", "3">>, "7"), ThebenCode(<<"5", "1">>, "7")>>,
    <<ThebenHex(<<"3", "4">>, "7"), ThebenCode(<<"5", "2">>, "7")>>,
    <<ThebenHex(<<"3", "8">>, "7"), ThebenCode(<<"5", "6">>, "7")>>,
    <<ThebenHex(<<"4", "7">>, "7"), ThebenCode(<<"7", "1">>, "7")>>,
    <<ThebenHex(<<"4", "8">>, "7"), ThebenCode(<<"7", "2">>, "7")>>,
    <<ThebenHex(<<"4", "c">>, "7"), ThebenCode(<<"7", "6">>, "7")>>,
    <<ThebenHex(<<"0", "e">>, "7"), ThebenCode(<<"1", "4">>, "7")>> }

\* mutant: the table is looked up with the spelling of the device
convertOBIS_CaseSensitive(hexOBIS) ==
  LET key == TrimSpace(hexOBIS)
  IN IF \E p \in ThebenMappings : p[1] = key
     THEN (CHOOSE p \in ThebenMappings : p[1] = key)[2]
     ELSE << >>

\* theben.Client.convertOBIS: "" for a code that is not in the table
convertOBIS(hexOBIS) ==
  LET key == ToLower(TrimSpace(hexOBIS))
  IN IF \E p \in ThebenMappings : p[1] = key
     THEN (CHOOSE p \in ThebenMappings : p[1] = key)[2]
     ELSE << >>

\* mutant: every value is divided by 1000, whatever the code
parseValue_AllBy1000(valueStr, obis) ==
  LET scanned == Sscanf(valueStr)
  IN IF scanned.err THEN [err |-> TRUE, val |-> Dec(0, 0)]
     ELSE [err |-> FALSE, val |-> Scale(scanned.val, -3)]

\* theben.Client.parseValue
parseValue(valueStr, obis) ==
  LET scanned == Sscanf(valueStr)
  IN IF scanned.err THEN [err |-> TRUE, val |-> Dec(0, 0)]
     ELSE IF Contains(obis, <<".", "8", ".">>) THEN [err |-> FALSE, val |-> Scale(scanned.val, -3)]
     ELSE [err |-> FALSE, val |-> Scale(scanned.val, -4)]

\* mutant: the case of the frequency (14.7) is missing
UnitOfSegments_NoHertz(parts) ==
  IF Len(parts) < 2 THEN UnitWatt
  ELSE IF parts[2] = <<"8">> THEN UnitWh
  ELSE IF parts[2] = <<"7">> THEN
    (CASE parts[1] \in {<<"1", "6">>, <<"3", "6">>, <<"5", "6">>, <<"7", "6">>} -> UnitWatt
       [] parts[1] \in {<<"3", "1">>, <<"5", "1">>, <<"7", "1">>} -> UnitAmpere
       [] parts[1] \in {<<"3", "2">>, <<"5", "2">>, <<"7", "2">>} -> UnitVolt
       [] OTHER -> UnitWatt)
  ELSE UnitWatt

\* the switch on the first two segments of a code that theben.Client.determineUnit
\* and ppc.Client.determineUnit share
UnitOfSegments(parts) ==
  IF Len(parts) < 2 THEN UnitWatt
  ELSE IF parts[2] = <<"8">> THEN UnitWh
  ELSE IF parts[2] = <<"7">> THEN
    (CASE parts[1] \in {<<"1", "6">>, <<"3", "6">>, <<"5", "6">>, <<"7", "6">>} -> UnitWatt
       [] parts[1] \in {<<"3", "1">>, <<"5", "1">>, <<"7", "1">>} -> UnitAmpere
       [] parts[1] \in {<<"3", "2">>, <<"5", "2">>, <<"7", "2">>} -> UnitVolt
       [] parts[1] = <<"1", "4">> -> UnitHertz
       [] OTHER -> UnitWatt)
  ELSE UnitWatt

\* theben.Client.determineUnit: the code follows the "1-0:" prefix
ThebenDetermineUnit(obis) ==
  LET parts == Split(obis, ":")
  IN IF Len(parts) < 2 THEN UnitWatt ELSE UnitOfSegments(Split(parts[2], "."))

\* the loop of theben.Client.getReadings over the readings of all channels
RECURSIVE ThebenAssemble(_, _)
ThebenAssemble(rs, readings) ==
  IF Len(rs) = 0 THEN readings
  ELSE LET r     == Head(rs)
           obis  == convertOBIS(r.OBIS)
           value == parseValue(r.Value, obis)
       IN IF obis = << >> THEN ThebenAssemble(Tail(rs), readings)
          ELSE IF value.err THEN ThebenAssemble(Tail(rs), readings)
          ELSE ThebenAssemble(Tail(rs),
                 Put(readings, obis, Reading(value.val, ThebenDetermineUnit(obis), obis)))

\* mutant: the preference for a running TAF-7 usage point is dropped
getUsagePointID_NoPreference(ups) ==
  IF Len(ups) > 0 THEN [err |-> FALSE, id |-> ups[1].ID] ELSE [err |-> TRUE, id |-> ""]

\* the selection of theben.Client.getUsagePointID over the listed usage points
getUsagePointID(ups) ==
  IF \E i \in 1..Len(ups) : ups[i].TafState = "running" /\ ups[i].TafNumber = "7"
  THEN [err |-> FALSE,
        id  |-> ups[CHOOSE i \in 1..Len(ups) :
                      /\ ups[i].TafState = "running" /\ ups[i].TafNumber = "7"
                      /\ \A j \in 1..(i-1) : ~(ups[j].TafState = "running" /\ ups[j].TafNumber = "7")].ID]
  ELSE IF Len(ups) > 0 THEN [err |-> FALSE, id |-> ups[1].ID]
  ELSE [err |-> TRUE, id |-> ""]

\* ------------------------------------------------------------------ PPC
\* ppc.Client.determineUnit
PpcDetermineUnit(obis) == UnitOfSegments(Split(obis, "."))

\* the rows of ppc.Client.extractTableRows, in document order; a row is the
\* trimmed text of its code and value cells ("" for a missing cell)
RECURSIVE PpcAssemble(_, _)
PpcAssemble(rows, readings) ==
  IF Len(rows) = 0 THEN readings
  ELSE LET row == Head(rows)
           val == ParseFloat(row.value)
       IN IF row.obis = << >> \/ row.value = << >> THEN PpcAssemble(Tail(rows), readings)
          ELSE IF val.err THEN PpcAssemble(Tail(rows), readings)
          ELSE PpcAssemble(Tail(rows),
                 Put(readings, row.obis, Reading(val.val, PpcDetermineUnit(row.obis), row.obis)))

\* ppc.Client.extractMeterID over the input elements of the document in
\* depth-first order: the value of the first input whose name contains
\* "meter" and whose value is not empty, "" when there is none
extractMeterID(inputs) ==
  LET hit(i) == Contains(inputs[i].name, <<"m", "e", "t", "e", "r">>) /\ inputs[i].value # ""
  IN IF \E i \in 1..Len(inputs) : hit(i)
     THEN inputs[CHOOSE i \in 1..Len(inputs) : hit(i) /\ \A j \in 1..(i-1) : ~hit(j)].value
     ELSE ""

\* ------------------------------------------------------- the obis registry
\* the constants of package obis
EnergyImport == <<"1", ".", "8", ".", "0">>
EnergyExport == <<"2", ".", "8", ".", "0">>
PowerActive == <<"1", "6", ".", "7", ".", "0">>
PowerL1 == <<"3", "6", ".", "7", ".", "0">>
PowerL2 == <<"5", "6", ".", "7", ".", "0">>
PowerL3 == <<"7", "6", ".", "7", ".", "0">>
CurrentL1 == <<"3", "1", ".", "7", ".", "0">>
CurrentL2 == <<"5", "1", ".", "7", ".", "0">>
CurrentL3 == <<"7", "1", ".", "7", ".", "0">>
VoltageL1 == <<"3", "2", ".", "7", ".", "0">>
VoltageL2 == <<"5", "2", ".", "7", ".", "0">>
VoltageL3 == <<"7", "2", ".", "7", ".", "0">>
Frequency == <<"1", "4", ".", "7", ".", "0">>

\* the map descriptions of obis.Description
descriptions ==
  { <<EnergyImport,
      <<"T", "o", "t", "a", "l", " ", "i", "m", "p", "o", "r", "t", "e", "d", " ", "e", "n", "e", "r", "g", "y", " ", "(", "k", "W", "h", ")">>>>,
    <<EnergyExport,
      <<"T", "o", "t", "a", "l", " ", "e", "x", "p", "o", "r", "t", "e", "d", " ", "e", "n", "e", "r", "g", "y", " ", "(", "k", "W", "h", ")">>>>,
    <<PowerActive,
      <<"C", "u", "r", "r", "e", "n", "t", " ", "a", "c", "t", "i", "v", "e", " ", "p", "o", "w", "e", "r", " ", "(", "W", ")">>>>,
    <<PowerL1,
      <<"P", "h", "a", "s", "e", " ", "1", " ", "a", "c", "t", "i", "v", "e", " ", "p", "o", "w", "e", "r", " ", "(", "W", ")">>>>,
    <<PowerL2,
      <<"P", "h", "a", "s", "e", " ", "2", " ", "a", "c", "t", "i", "v", "e", " ", "p", "o", "w", "e", "r", " ", "(", "W", ")">>>>,
    <<PowerL3,
      <<"P", "h", "a", "s", "e", " ", "3", " ", "a", "c", "t", "i", "v", "e", " ", "p", "o", "w", "e", "r", " ", "(", "W", ")">>>>,
    <<CurrentL1,
      <<"P", "h", "a", "s", "e", " ", "1", " ", "c", "u", "r", "r", "e", "n", "t", " ", "(", "A", ")">>>>,
    <<CurrentL2,
      <<"P", "h", "a", "s", "e", " ", "2", " ", "c", "u", "r", "r", "e", "n", "t", " ", "(", "A", ")">>>>,
    <<CurrentL3,
      <<"P", "h", "a", "s", "e", " ", "3", " ", "c", "u", "r", "r", "e", "n", "t", " ", "(", "A", ")">>>>,
    <<VoltageL1,
      <<"P", "h", "a", "s", "e", " ", "1", " ", "v", "o", "l", "t", "a", "g", "e", " ", "(", "V", ")">>>>,
    <<VoltageL2,
      <<"P", "h", "a", "s", "e", " ", "2", " ", "v", "o", "l", "t", "a", "g", "e", " ", "(", "V", ")">>>>,
    <<VoltageL3,
      <<"P", "h", "a", "s", "e", " ", "3", " ", "v", "o", "l", "t", "a", "g", "e", " ", "(", "V", ")">>>>,
    <<Frequency,
      <<"G", "r", "i", "d", " ", "f", "r", "e", "q", "u", "e", "n", "c", "y", " ", "(", "H", "z", ")">>>> }

\* mutant: the message for an unknown code leaves the code out
Description_WithoutCode(code) ==
  IF \E p \in descriptions : p[1] = code
  THEN (CHOOSE p \in descriptions : p[1] = code)[2]
  ELSE <<"U", "n", "k", "n", "o", "w", "n", " ", "O", "B", "I", "S", " ", "c", "o", "d", "e", ":", " ">>

\* obis.Description
Description(code) ==
  IF \E p \in descriptions : p[1] = code
  THEN (CHOOSE p \in descriptions : p[1] = code)[2]
  ELSE <<"U", "n", "k", "n", "o", "w", "n", " ", "O", "B", "I", "S", " ", "c", "o", "d", "e", ":", " ">> \o code

\* ------------------------------------------------------------ construction
\* strings.HasPrefix
HasPrefix(s, prefix) == Len(s) >= Len(prefix) /\ SubSeq(s, 1, Len(prefix)) = prefix

\* defaultScheme(uri, "https"), and the same test in the theben and ppc
\* constructors
defaultScheme(uri) ==
  IF ~HasPrefix(uri, <<"h", "t", "t", "p", ":", "/", "/">>) /\ ~HasPrefix(uri, <<"h", "t", "t", "p", "s", ":", "/", "/">>)
  THEN <<"h", "t", "t", "p", "s", ":", "/", "/">> \o uri
  ELSE uri

\* what a constructor returns: an error and no client, or a client
NewClientError(msg) ==
  [done |-> TRUE, err |-> msg, hasClient |-> FALSE,
   client |-> [uri |-> << >>, meterID |-> ""]]
NewClientOk(uri, id) ==
  [done |-> TRUE, err |-> "", hasClient |-> TRUE,
   client |-> [uri |-> uri, meterID |-> id]]

\* emhcasa.NewClient; discovered is what DiscoverGatewayURI returns when it
\* is called
EmhNewClient(uri, user, password, id, discovered) ==
  IF uri = << >> /\ discovered.err THEN NewClientError("failed to discover gateway")
  ELSE IF user = "" \/ password = "" THEN NewClientError("credentials are required")
  ELSE NewClientOk(defaultScheme(IF uri = << >> THEN discovered.uri ELSE uri), id)

\* mutant: the password is not asked for
ThebenNewClient_PasswordOptional(baseURL, username, password) ==
  IF username = "" THEN NewClientError("credentials are required")
  ELSE IF baseURL = << >> THEN NewClientError("base URL is required")
  ELSE NewClientOk(defaultScheme(baseURL), "")

\* theben.NewClient
ThebenNewClient(baseURL, username, password) ==
  IF username = "" \/ password = "" THEN NewClientError("credentials are required")
  ELSE IF baseURL = << >> THEN NewClientError("base URL is required")
  ELSE NewClientOk(defaultScheme(baseURL), "")

\* ppc.NewClient
PpcNewClient(baseURL, username, password) ==
  IF username = "" \/ password = "" THEN NewClientError("credentials are required")
  ELSE IF baseURL = << >> THEN NewClientError("base URL is required")
  ELSE NewClientOk(defaultScheme(baseURL), "")

\* ------------------------------------------------------ device responses
SeqsUpTo(S, n) == UNION {[1..k -> S] : k \in 0..n}

MeterIds == {"m1", "m2"}
ContractIds == {"c1", "c2"}

\* emhcasa.DerivedContract bodies a gateway may return for one contract
DerivedContracts ==
  [TafType : {"TAF-1", "TAF-7"},
   SensorDomains : {<< >>, <<"m1">>, <<"m2", "m1">>, <<"">>}]

LnPower  == <<"0", "1", "0", "0", "1", "0", "0", "7", "0", "0", "F", "F">>
LnImport == <<"0", "1", "0", "0", "0", "1", "0", "8", "0", "0", "F", "F">>
LnExport == <<"0", "1", "0", "0", "0", "2", "0", "8", "0", "0", "F", "F">>
LnShort  == <<"0", "1", "0", "0", "1", "0">>
LnSigned == <<"0", "1", "0", "0", "-", "1", "0", "7", "0", "0", "F", "F">>

\* emhcasa.MeterValue entries of a readings response
MeterValues ==
  { [LogicalName |-> LnPower,  Value |-> <<"2", "5", "0", "0">>, Unit |-> 27, Scaler |-> 0],
    [LogicalName |-> LnImport, Value |-> <<"1", "2", "3", "4", "5", "0">>, Unit |-> 30, Scaler |-> 0],
    [LogicalName |-> LnExport, Value |-> <<"a", "b", "c">>, Unit |-> 30, Scaler |-> 0],
    [LogicalName |-> LnShort,  Value |-> <<"5">>, Unit |-> 27, Scaler |-> 2],
    [LogicalName |-> LnSigned, Value |-> <<"1", "5", "3">>, Unit |-> 33, Scaler |-> -1],
    [LogicalName |-> LnPower \o <<".", "1">>, Value |-> <<"7">>, Unit |-> 99, Scaler |-> 1],
    [LogicalName |-> LnExport, Value |-> <<"4", "0", "0", "0">>, Unit |-> 30, Scaler |-> 0] }

\* theben usagePoint entries of a user-info response
UsagePoints ==
  { [ID |-> "m1", TafState |-> "stopped", TafNumber |-> "7"],
    [ID |-> "m2", TafState |-> "running", TafNumber |-> "7"],
    [ID |-> "m1", TafState |-> "running", TafNumber |-> "1"],
    [ID |-> "m1", TafState |-> "running", TafNumber |-> "7"],
    [ID |-> "",   TafState |-> "running", TafNumber |-> "7"] }

\* theben reading entries of a readings response, all channels in order
ThebenReadings ==
  { [OBIS |-> ThebenHex(<<"1", "0">>, "7"), Value |-> <<"2", "5", "0", "0", "0">>],
    [OBIS |-> <<"0", "1", "0", "0", "0", "1", "0", "8", "0", "0", "F", "F">>,
     Value |-> <<"1", "2", "3", "4", "5", "0">>],
    [OBIS |-> ThebenHex(<<"0", "2">>, "8"), Value |-> <<"a", "b", "c">>],
    [OBIS |-> ThebenHex(<<"9", "9">>, "9"), Value |-> <<"5">>],
    [OBIS |-> ThebenHex(<<"1", "0">>, "7"), Value |-> <<"1", "2", "x">>] }

\* theben smgw-info bodies
SmgwInfos == { [Model |-> "Conexa", Manufacturer |-> "Theben", FirmwareVersion |-> "3.1"] }
NoSmgwInfo == [Model |-> "", Manufacturer |-> "", FirmwareVersion |-> ""]

\* ppc rows of the metervalue table: the trimmed text of the code and value cells
PpcRows ==
  { [obis |-> <<"1", "6", ".", "7", ".", "0">>, value |-> <<"2", "5", "0", "0">>],
    [obis |-> <<"1", ".", "8", ".", "0">>, value |-> <<"1", "2", "3", ".", "4", "5">>],
    [obis |-> <<"2", ".", "8", ".", "0">>, value |-> <<"a", "b", "c">>],
    [obis |-> <<"O", "B", "I", "S">>, value |-> <<"5">>],
    [obis |-> << >>, value |-> <<"7">>],
    [obis |-> <<"1", "6", ".", "7", ".", "0">>, value |-> <<"7">>] }

\* ppc input elements of the meterform document
PpcInputs ==
  { [name |-> <<"m", "e", "t", "e", "r", "_", "i", "d">>, value |-> "m1"],
    [name |-> <<"m", "e", "t", "e", "r", "_", "i", "d">>, value |-> "m2"],
    [name |-> <<"m", "e", "t", "e", "r", "_", "i", "d">>, value |-> ""],
    [name |-> <<"a", "c", "t", "i", "o", "n">>, value |-> "m2"] }

\* ------------------------------------------------------------------ state
Vendors == {"emhcasa", "theben", "ppc"}

VARIABLES
  vendor,     \* which facade the client is
  meterID,    \* Client.meterID, "" when unset
  op,         \* the method called last ("none" before the first call)
  pc,         \* position of that call: the request it issues next, or "done"
  ctxDone,    \* the caller's context of that call has been cancelled
  cands,      \* emhcasa: contract ids still to fetch in discoverMeterIDContext
  smgwInfo,   \* theben: the smgw-info fetched by this call
  ret,        \* what the call returned (meaningful when pc = "done")
  preID,      \* history: meterID when the call began
  reqs,       \* history: the requests the call attempted, in order
  cancelIdx,  \* history: index in reqs of the request in flight when the
              \* context was cancelled, 0 when it was not
  failed,     \* history: the indices in reqs of the requests that failed
  disc,       \* history: "ok"/"err" once the discovery step of the call ended
  listed,     \* history: the candidates the discovery of the call received,
              \* kept until the call moves on from its discovery
  entries,    \* history: the raw entries of the readings response
  thrPc,         \* concurrent callers: position of each caller's GetReadings
  thrCands,      \* concurrent callers: emhcasa contracts a caller has yet to fetch
  ranDiscovery,  \* history: the callers that issued the candidate listing
  wroteIdentity, \* history: the callers that stored a discovered identity
  target,        \* history: the meter id the readings request of the call
                 \* names, "*" when it names none, "-" before the request
  inHex,         \* conversions: the hex part of the logical name given
  inName,        \* conversions: the logical name given to convertToOBIS
  inItem,        \* conversions: the MeterValue given to convertReading
  outObis,       \* conversions: what convertToOBIS returned
  outReading,    \* conversions: what convertReading returned
  called,        \* functions on their own: the function called, "" when none
  args,          \* functions on their own: its arguments
  res         \* functions on their own: what it returned

\* the call of the single caller, and the calls of the concurrent callers
call == <<op, pc, ctxDone, cands, smgwInfo, ret,
          preID, reqs, cancelIdx, failed, disc, listed, entries, target>>
conc == <<thrPc, thrCands, ranDiscovery, wroteIdentity>>
conv == <<inHex, inName, inItem, outObis, outReading>>
pure == <<conv, called, args, res>>
vars == <<vendor, meterID, call, conc, pure>>

Threads == {"t1", "t2"}

NoInfo == Information("", "", "", "", EmptyReadings)
NoRet == [err |-> FALSE, kind |-> "", cause |-> "", id |-> "", hasInfo |-> FALSE, info |-> NoInfo]

\* return nil, fmt.Errorf("...: %w", err): cause is what errors.Is finds
ErrRet(kind, cause) == [NoRet EXCEPT !.err = TRUE, !.kind = kind, !.cause = cause]
\* return info, nil
InfoRet(info) == [NoRet EXCEPT !.hasInfo = TRUE, !.info = info]
\* return c.meterID, nil
IdRet(id) == [NoRet EXCEPT !.id = id]

\* the values of the conversion variables while no conversion is modelled
NoItem == [LogicalName |-> << >>, Value |-> << >>, Unit |-> UnitNone, Scaler |-> 0]
NoObis == [done |-> FALSE, err |-> FALSE, obis |-> << >>]
NoReading == [done |-> FALSE, reading |-> Reading(Dec(0, 0), UnitNone, << >>)]
NoResult == [done |-> FALSE]
NoConv ==
  /\ inHex = << >> /\ inName = << >> /\ inItem = NoItem
  /\ outObis = NoObis /\ outReading = NoReading
NoPure ==
  /\ NoConv
  /\ called = "" /\ args = << >> /\ res = NoResult

\* no call of a client in progress, none made
NoCall ==
  /\ op = "none" /\ pc = "idle" /\ ctxDone = FALSE
  /\ cands = << >> /\ smgwInfo = NoSmgwInfo /\ ret = NoRet
  /\ preID = meterID /\ reqs = << >> /\ cancelIdx = 0 /\ failed = {}
  /\ disc = "none" /\ listed = << >> /\ entries = << >> /\ target = "-"

Init ==
  /\ vendor \in Vendors
  /\ meterID \in MeterIds \cup {""}
  /\ NoCall /\ NoPure
  /\ thrPc = [t \in Threads |-> "idle"] /\ thrCands = [t \in Threads |-> 0]
  /\ ranDiscovery = {} /\ wroteIdentity = {}

Idle == pc \in {"idle", "done"}

\* ------------------------------------------------------------- transport
\* The outcomes of one round trip (http.Client.Do with the call's context,
\* status check, body decoding): a body, a failure, or the cancellation of
\* the caller's context while the request is in flight.  On a context that
\* is already cancelled the round trip fails at once with the context's
\* error.  MeterID() runs under its own timeout context, which no caller
\* cancels.
Outcomes(bodies) ==
  IF ctxDone THEN {[st |-> "cancel", body |-> << >>]}
  ELSE {[st |-> "ok", body |-> b] : b \in bodies}
       \cup {[st |-> "fail", body |-> << >>]}
       \cup (IF op \in {"GetReadings", "DiscoverMeterID"}
             THEN {[st |-> "cancel", body |-> << >>]} ELSE {})

Cause(out) == IF out.st = "cancel" THEN "cancel" ELSE "transport"

\* bookkeeping of one attempted request
Attempt(kind, out) ==
  /\ reqs' = Append(reqs, kind)
  /\ failed' = IF out.st = "ok" THEN failed ELSE failed \cup {Len(reqs) + 1}
  /\ ctxDone' = (ctxDone \/ out.st = "cancel")
  /\ cancelIdx' = IF ~ctxDone /\ out.st = "cancel" THEN Len(reqs) + 1 ELSE cancelIdx

\* a call begins: its history is empty
Begin(method, first, result) ==
  /\ Idle
  /\ op' = method /\ pc' = first /\ ret' = result
  /\ ctxDone' = FALSE /\ cands' = << >> /\ smgwInfo' = NoSmgwInfo
  /\ preID' = meterID /\ reqs' = << >> /\ cancelIdx' = 0 /\ failed' = {}
  /\ disc' = "none" /\ listed' = << >> /\ entries' = << >>
  /\ target' = "-"
  /\ UNCHANGED <<vendor, conc, pure>>

\* --------------------------------------------------- methods of all facades
\* the meter the readings request names.  emhcasa puts c.meterID in the URI
\* and ppc in the meter_id field of the form; theben.Client.getReadings takes
\* c.meterID as usagePointID and sends {"method": "readings"}, which names no
\* usage point ("*")
ReadingsTarget == IF vendor = "theben" THEN "*" ELSE meterID

\* Client.SetMeterID (the same in the three packages)
SetMeterID ==
  \E id \in MeterIds \cup {""} :
    /\ Begin("SetMeterID", "done", NoRet)
    /\ meterID' = id

\* Client.DiscoverMeterID, up to its first request
DiscoverMeterID ==
  /\ Begin("DiscoverMeterID", "list", NoRet)
  /\ UNCHANGED meterID

\* mutant: MeterID runs the discovery whether or not the identity is set
MeterID_AlwaysDiscovers ==
  /\ Begin("MeterID", "list", NoRet)
  /\ UNCHANGED meterID

\* Client.MeterID, up to its first request: a set identity is returned as it is
MeterID ==
  /\ IF meterID = "" THEN Begin("MeterID", "list", NoRet)
     ELSE Begin("MeterID", "done", IdRet(meterID))
  /\ UNCHANGED meterID

\* ------------------------------------------------------------- EMH CASA
\* mutant: GetReadings runs the discovery whether or not the identity is set
EmhGetReadings_AlwaysDiscovers ==
  /\ vendor = "emhcasa"
  /\ Begin("GetReadings", "list", NoRet)
  /\ UNCHANGED meterID

\* emhcasa.Client.GetReadings, up to its first request
EmhGetReadings ==
  /\ vendor = "emhcasa"
  /\ Begin("GetReadings", IF meterID = "" THEN "list" ELSE "readings", NoRet)
  /\ UNCHANGED meterID

\* mutant: GetReadings goes on to the readings request when discovery failed
EmhDiscovered_IgnoresError(err, cause, seen) ==
  /\ disc' = IF err THEN "err" ELSE "ok"
  /\ listed' = IF op = "GetReadings" THEN << >> ELSE seen
  /\ CASE op = "GetReadings" ->
            pc' = "readings" /\ ret' = NoRet
       [] op = "DiscoverMeterID" ->
            pc' = "done" /\ ret' = IF err THEN ErrRet("discover", cause) ELSE IdRet(meterID')
       [] OTHER ->
            pc' = "done" /\ ret' = IdRet(meterID')

\* what the callers of emhcasa.Client.discoverMeterIDContext do when it
\* returns (it has set c.meterID itself on success): GetReadings goes on or
\* returns the wrapped error, DiscoverMeterID returns the identity or the
\* error, MeterID returns c.meterID whatever happened
EmhDiscovered(err, cause, seen) ==
  /\ disc' = IF err THEN "err" ELSE "ok"
  /\ listed' = IF op = "GetReadings" /\ ~err THEN << >> ELSE seen
  /\ CASE op = "GetReadings" ->
            IF err THEN pc' = "done" /\ ret' = ErrRet("discover", cause)
            ELSE pc' = "readings" /\ ret' = NoRet
       [] op = "DiscoverMeterID" ->
            pc' = "done" /\ ret' = IF err THEN ErrRet("discover", cause) ELSE IdRet(meterID')
       [] OTHER ->
            pc' = "done" /\ ret' = IdRet(meterID')

\* emhcasa.Client.discoverMeterIDContext: the contract listing
EmhListContracts ==
  /\ vendor = "emhcasa" /\ pc = "list"
  /\ \E out \in Outcomes(SeqsUpTo(ContractIds, MaxContracts)) :
       /\ Attempt("list", out)
       /\ meterID' = meterID
       /\ IF out.st = "ok" /\ Len(out.body) > 0
          THEN /\ cands' = out.body /\ pc' = "detail" /\ ret' = NoRet
               /\ disc' = disc /\ listed' = listed
          ELSE /\ cands' = << >>
               /\ EmhDiscovered(TRUE, IF out.st = "ok" THEN "none" ELSE Cause(out), listed)
  /\ UNCHANGED <<pure, conc, target, vendor, op, smgwInfo, preID, entries>>

\* mutant: after the last contract the scan falls back to a default identity
discoverTurn_Fallback(out, remaining) ==
  IF out.st = "ok" /\ Len(out.body.SensorDomains) > 0
  THEN [next |-> "found", id |-> out.body.SensorDomains[1]]
  ELSE IF Len(remaining) > 1 THEN [next |-> "continue", id |-> ""]
  ELSE [next |-> "found", id |-> Head(remaining)]

\* emhcasa.Client.discoverMeterIDContext: the body of the loop over the
\* contracts, for the response out to the fetch of the first of remaining.
\* A contract whose fetch fails is passed over; the first contract with
\* sensor domains gives the meter ID; after the last contract the error
\* "no contract with sensor domains found" is returned
discoverTurn(out, remaining) ==
  IF out.st = "ok" /\ Len(out.body.SensorDomains) > 0
  THEN [next |-> "found", id |-> out.body.SensorDomains[1]]
  ELSE IF Len(remaining) > 1 THEN [next |-> "continue", id |-> ""]
  ELSE [next |-> "notfound", id |-> ""]

\* emhcasa.Client.discoverMeterIDContext: one turn of the loop
EmhGetContract ==
  /\ vendor = "emhcasa" /\ pc = "detail"
  /\ \E out \in Outcomes(DerivedContracts) :
       LET turn == discoverTurn(out, cands)
           seen == Append(listed,
             [id |-> Head(cands), st |-> out.st,
              contract |-> IF out.st = "ok" THEN out.body
                           ELSE [TafType |-> "", SensorDomains |-> << >>]])
       IN
       /\ Attempt("detail", out)
       /\ CASE turn.next = "found" ->
                 /\ meterID' = turn.id
                 /\ cands' = << >>
                 /\ EmhDiscovered(FALSE, "none", seen)
            [] turn.next = "continue" ->
                 /\ meterID' = meterID
                 /\ cands' = Tail(cands)
                 /\ pc' = "detail" /\ ret' = NoRet /\ disc' = disc /\ listed' = seen
            [] OTHER ->
                 /\ meterID' = meterID
                 /\ cands' = << >>
                 /\ EmhDiscovered(TRUE, "none", seen)
  /\ UNCHANGED <<pure, conc, target, vendor, op, smgwInfo, preID, entries>>

\* mutant: a logical name that does not convert fails the call
EmhInformation_AbortsOnMalformed(values) ==
  LET readings == EmhAssemble(values, EmptyReadings)
  IN IF \E i \in 1..Len(values) : convertToOBIS(values[i].LogicalName).err
     THEN ErrRet("convert", "none")
     ELSE IF DOMAIN readings = {} THEN ErrRet("noreadings", "none")
     ELSE InfoRet(Information(meterID, "EMH CASA 1.1", "EMH", "", readings))

\* emhcasa.Client.GetReadings from the decoded readings response on
EmhInformation(values) ==
  LET readings == EmhAssemble(values, EmptyReadings)
  IN IF DOMAIN readings = {} THEN ErrRet("noreadings", "none")
     ELSE InfoRet(Information(meterID, "EMH CASA 1.1", "EMH", "", readings))

\* emhcasa.Client.GetReadings: the readings request and what follows it
EmhGetExtended ==
  /\ vendor = "emhcasa" /\ pc = "readings"
  /\ \E out \in Outcomes(SeqsUpTo(MeterValues, MaxEntries)) :
       /\ Attempt("readings", out)
       /\ entries' = out.body
       /\ ret' = IF out.st = "ok" THEN EmhInformation(out.body)
                 ELSE ErrRet("readings", Cause(out))
  /\ pc' = "done"
  /\ target' = ReadingsTarget
  /\ UNCHANGED <<pure, conc, vendor, meterID, op, cands, smgwInfo, preID, disc, listed>>

\* --------------------------------------------------------------- Theben
\* mutant: the Theben GetReadings begins with the discovery and fetches no
\* smgw-info
ThebenGetReadings_DiscoveryFirst ==
  /\ vendor = "theben"
  /\ Begin("GetReadings", IF meterID = "" THEN "list" ELSE "readings", NoRet)
  /\ UNCHANGED meterID

\* theben.Client.GetReadings, up to its first request
ThebenGetReadings ==
  /\ vendor = "theben"
  /\ Begin("GetReadings", "meta", NoRet)
  /\ UNCHANGED meterID

\* theben.Client.GetReadings: step 1, getSMGWInfo, and the test of c.meterID
ThebenSmgwInfo ==
  /\ vendor = "theben" /\ pc = "meta"
  /\ \E out \in Outcomes(SmgwInfos) :
       /\ Attempt("meta", out)
       /\ IF out.st = "ok"
          THEN /\ smgwInfo' = out.body
               /\ pc' = IF meterID = "" THEN "list" ELSE "readings"
               /\ ret' = NoRet
          ELSE /\ smgwInfo' = smgwInfo
               /\ pc' = "done"
               /\ ret' = ErrRet("meta", Cause(out))
  /\ UNCHANGED <<pure, conc, target, vendor, meterID, op, cands, preID, disc, listed, entries>>

\* what the callers of theben.Client.getUsagePointID do with its result:
\* GetReadings and DiscoverMeterID store the identity or return the error,
\* MeterID ignores the error of DiscoverMeterID
ThebenDiscovered(err, cause, id, seen) ==
  /\ meterID' = IF err THEN meterID ELSE id
  /\ listed' = IF op = "GetReadings" /\ ~err THEN << >> ELSE seen
  /\ disc' = IF err THEN "err" ELSE "ok"
  /\ CASE op = "GetReadings" ->
            IF err THEN pc' = "done" /\ ret' = ErrRet("discover", cause)
            ELSE pc' = "readings" /\ ret' = NoRet
       [] op = "DiscoverMeterID" ->
            pc' = "done" /\ ret' = IF err THEN ErrRet("discover", cause) ELSE IdRet(id)
       [] OTHER ->
            pc' = "done" /\ ret' = IdRet(IF err THEN meterID ELSE id)

\* theben.Client.getUsagePointID: the user-info request and the selection
ThebenUserInfo ==
  /\ vendor = "theben" /\ pc = "list"
  /\ \E out \in Outcomes(SeqsUpTo(UsagePoints, MaxUsagePoints)) :
       /\ Attempt("list", out)
       /\ IF out.st = "ok"
          THEN ThebenDiscovered(getUsagePointID(out.body).err, "none",
                                getUsagePointID(out.body).id, out.body)
          ELSE ThebenDiscovered(TRUE, Cause(out), "", << >>)
  /\ UNCHANGED <<pure, conc, target, vendor, op, cands, smgwInfo, preID, entries>>

\* theben.Client.GetReadings from the readings map of getReadings on
ThebenInformation(rs) ==
  InfoRet(Information(meterID, smgwInfo.Model, smgwInfo.Manufacturer,
                      smgwInfo.FirmwareVersion, ThebenAssemble(rs, EmptyReadings)))

\* theben.Client.getReadings: the readings request and what follows it
ThebenGetReadingsFetch ==
  /\ vendor = "theben" /\ pc = "readings"
  /\ \E out \in Outcomes(SeqsUpTo(ThebenReadings, MaxEntries)) :
       /\ Attempt("readings", out)
       /\ entries' = out.body
       /\ ret' = IF out.st = "ok" THEN ThebenInformation(out.body)
                 ELSE ErrRet("readings", Cause(out))
  /\ pc' = "done"
  /\ target' = ReadingsTarget
  /\ UNCHANGED <<pure, conc, vendor, meterID, op, cands, smgwInfo, preID, disc, listed>>

\* ------------------------------------------------------------------ PPC
\* ppc.Client.GetReadings, up to its first request
PpcGetReadings ==
  /\ vendor = "ppc"
  /\ Begin("GetReadings", IF meterID = "" THEN "list" ELSE "readings", NoRet)
  /\ UNCHANGED meterID

\* what the callers of ppc.Client.getMeterID do with its result
PpcDiscovered(err, cause, id, seen) ==
  /\ meterID' = IF err THEN meterID ELSE id
  /\ listed' = IF op = "GetReadings" /\ ~err THEN << >> ELSE seen
  /\ disc' = IF err THEN "err" ELSE "ok"
  /\ CASE op = "GetReadings" ->
            IF err THEN pc' = "done" /\ ret' = ErrRet("discover", cause)
            ELSE pc' = "readings" /\ ret' = NoRet
       [] op = "DiscoverMeterID" ->
            pc' = "done" /\ ret' = IF err THEN ErrRet("discover", cause) ELSE IdRet(id)
       [] OTHER ->
            pc' = "done" /\ ret' = IdRet(IF err THEN meterID ELSE id)

\* ppc.Client.getMeterID: the meterform request and the extraction
PpcGetMeterID ==
  /\ vendor = "ppc" /\ pc = "list"
  /\ \E out \in Outcomes(SeqsUpTo(PpcInputs, MaxInputs)) :
       /\ Attempt("list", out)
       /\ IF out.st = "ok"
          THEN PpcDiscovered(extractMeterID(out.body) = "", "none",
                             extractMeterID(out.body), out.body)
          ELSE PpcDiscovered(TRUE, Cause(out), "", << >>)
  /\ UNCHANGED <<pure, conc, target, vendor, op, cands, smgwInfo, preID, entries>>

\* ppc.Client.getMeterProfile after the document is parsed, and the
\* Information ppc.Client.GetReadings builds from its result
PpcInformation(rows) ==
  LET readings == PpcAssemble(rows, EmptyReadings)
  IN IF DOMAIN readings = {} THEN ErrRet("noreadings", "none")
     ELSE InfoRet(Information(meterID, "PPC SMGW", "PPC", "", readings))

\* ppc.Client.getMeterProfile: the showMeterProfile request and what follows
PpcGetMeterProfile ==
  /\ vendor = "ppc" /\ pc = "readings"
  /\ \E out \in Outcomes(SeqsUpTo(PpcRows, MaxEntries)) :
       /\ Attempt("readings", out)
       /\ entries' = out.body
       /\ ret' = IF out.st = "ok" THEN PpcInformation(out.body)
                 ELSE ErrRet("readings", Cause(out))
  /\ pc' = "done"
  /\ target' = ReadingsTarget
  /\ UNCHANGED <<pure, conc, vendor, meterID, op, cands, smgwInfo, preID, disc, listed>>

\* ---------------------------------------------------------- specification
Next ==
  \/ SetMeterID
  \/ DiscoverMeterID
  \/ MeterID
  \/ EmhGetReadings
  \/ EmhListContracts
  \/ EmhGetContract
  \/ EmhGetExtended
  \/ ThebenGetReadings
  \/ ThebenSmgwInfo
  \/ ThebenUserInfo
  \/ ThebenGetReadingsFetch
  \/ PpcGetReadings
  \/ PpcGetMeterID
  \/ PpcGetMeterProfile

Spec == Init /\ [][Next]_vars

\* ------------------------------------------------- concurrent GetReadings
\* GetReadings called by several goroutines on one client.  No method of the
\* three clients takes a lock, so the callers interleave at every access to
\* c.meterID and at every round trip.  Only what touches c.meterID is
\* modelled: the test of the field, the discovery requests, the store of the
\* discovered identity and the readings request.

\* GetReadings up to its first request: emhcasa and ppc test c.meterID
\* first, theben fetches the smgw-info first
ConcEnter(t) ==
  /\ thrPc[t] = "start"
  /\ thrPc' = [thrPc EXCEPT ![t] =
       IF vendor = "theben" THEN "meta"
       ELSE IF meterID = "" THEN "list" ELSE "readings"]
  /\ UNCHANGED <<pure, vendor, meterID, call, thrCands, ranDiscovery, wroteIdentity>>

\* theben.Client.GetReadings: getSMGWInfo, then the test of c.meterID
ConcSmgwInfo(t) ==
  /\ vendor = "theben" /\ thrPc[t] = "meta"
  /\ \E ok \in BOOLEAN :
       thrPc' = [thrPc EXCEPT ![t] =
         IF ~ok THEN "done" ELSE IF meterID = "" THEN "list" ELSE "readings"]
  /\ UNCHANGED <<pure, vendor, meterID, call, thrCands, ranDiscovery, wroteIdentity>>

\* the candidate listing of the discovery: theben and ppc select the
\* identity from the response and the caller stores it in c.meterID;
\* emhcasa goes on to fetch the listed contracts
ConcList(t) ==
  /\ thrPc[t] = "list"
  /\ ranDiscovery' = ranDiscovery \cup {t}
  /\ IF vendor = "emhcasa"
     THEN \E n \in 0..MaxContracts, ok \in BOOLEAN :
            /\ thrPc' = [thrPc EXCEPT ![t] = IF ok /\ n > 0 THEN "detail" ELSE "done"]
            /\ thrCands' = [thrCands EXCEPT ![t] = IF ok THEN n ELSE 0]
            /\ UNCHANGED <<meterID, wroteIdentity>>
     ELSE \E id \in MeterIds \cup {""} :
            \* "" stands for a failed request or a response without candidate
            /\ thrPc' = [thrPc EXCEPT ![t] = IF id = "" THEN "done" ELSE "readings"]
            /\ meterID' = IF id = "" THEN meterID ELSE id
            /\ wroteIdentity' = IF id = "" THEN wroteIdentity ELSE wroteIdentity \cup {t}
            /\ UNCHANGED thrCands
  /\ UNCHANGED <<pure, vendor, call>>

\* emhcasa.Client.discoverMeterIDContext: one turn of the loop; the first
\* contract with sensor domains is stored in c.meterID
ConcGetContract(t) ==
  /\ vendor = "emhcasa" /\ thrPc[t] = "detail"
  /\ \E id \in MeterIds \cup {""} :
       \* "" stands for a failed fetch or a contract without sensor domains
       /\ thrPc' = [thrPc EXCEPT ![t] =
            IF id # "" THEN "readings" ELSE IF thrCands[t] > 1 THEN "detail" ELSE "done"]
       /\ thrCands' = [thrCands EXCEPT ![t] = IF id # "" THEN 0 ELSE thrCands[t] - 1]
       /\ meterID' = IF id = "" THEN meterID ELSE id
       /\ wroteIdentity' = IF id = "" THEN wroteIdentity ELSE wroteIdentity \cup {t}
  /\ UNCHANGED <<pure, vendor, call, ranDiscovery>>

\* the readings request for c.meterID, and the return
ConcReadings(t) ==
  /\ thrPc[t] = "readings"
  /\ thrPc' = [thrPc EXCEPT ![t] = "done"]
  /\ UNCHANGED <<pure, vendor, meterID, call, thrCands, ranDiscovery, wroteIdentity>>

InitConc ==
  /\ vendor \in Vendors
  /\ meterID = ""
  /\ NoCall /\ NoPure
  /\ thrPc = [t \in Threads |-> "start"] /\ thrCands = [t \in Threads |-> 0]
  /\ ranDiscovery = {} /\ wroteIdentity = {}

NextConc ==
  \E t \in Threads :
    \/ ConcEnter(t)
    \/ ConcSmgwInfo(t)
    \/ ConcList(t)
    \/ ConcGetContract(t)
    \/ ConcReadings(t)

SpecConc == InitConc /\ [][NextConc]_vars

\* ------------------------------------------------ conversions on their own
\* convertToOBIS and convertReading called on one argument: the hex part of
\* a logical name is four characters of A and B, three bytes C, D and E, and
\* one byte F; a name is a hex part alone or followed by a dot and a suffix
HexPairs ==
  { <<"1", "0">>, <<"0", "7">>, <<"0", "0">>, <<"1", "F">>, <<"f", "e">>,
    <<"Z", "Z">>, <<"-", "1">>, <<"+", "1">> }
HexHeads == { <<"0", "1", "0", "0">>, <<"0", "Z", "0", "0">> }
HexTails == { <<"F", "F">>, <<"z", "z">> }
HexParts ==
  {h \o c \o d \o e \o t : h \in HexHeads, c \in HexPairs, d \in HexPairs,
                           e \in HexPairs, t \in HexTails}
  \cup {LnPower, LnImport, LnExport, LnShort, << >>,
        LnPower \o <<"F">>, SubSeq(LnPower, 1, 11)}
NameSuffixes == { << >>, <<".">>, <<".", "1">>, <<".", "1", ".", "2">> }

\* the MeterValue arguments of convertReading: numeric values, the scalers
\* from -MaxScaler to MaxScaler, the unit tags of the switch and two others
ItemValues ==
  { <<"2", "5", "0", "0">>, <<"5">>, <<"1", "2", "3", "4", "5", "0">>,
    <<"1", "5", "3">>, <<"-", "7">>, <<"1", ".", "5">> }
ItemUnits == {UnitNone, UnitWatt, UnitWh, UnitAmpere, UnitVolt, UnitHertz, 99}
Items ==
  [LogicalName : {LnPower}, Value : ItemValues,
   Unit : ItemUnits, Scaler : (0 - MaxScaler)..MaxScaler]

\* a function called on its own returns
Return(r) ==
  /\ ~res.done
  /\ res' = r
  /\ UNCHANGED <<vendor, meterID, call, conc, conv, called, args>>

UpperChar(c) ==
  CASE c = "a" -> "A" [] c = "b" -> "B" [] c = "c" -> "C"
    [] c = "d" -> "D" [] c = "e" -> "E" [] c = "f" -> "F"
    [] OTHER -> c

\* the device codes of theben readings: every code of the table, in lower
\* case, in upper case and with blanks around it, and codes outside it
ThebenDeviceCodes ==
  LET keys == {p[1] : p \in ThebenMappings}
  IN keys
     \cup {[i \in 1..Len(k) |-> UpperChar(k[i])] : k \in keys}
     \cup {<<" ">> \o k \o <<" ">> : k \in keys}
     \cup {ThebenHex(<<"9", "9">>, "9"), ThebenHex(<<"1", "0">>, "8"), << >>,
           <<"0", "1", "0", "0", "0", "1", "0", "8", "0", "0", "F", "f">>,
           <<"0", "1", "0", "0", "9", "9", "0", "9", "0", "0", "F", "F">>,
           <<"1", "-", "0", ":", "1", ".", "8", ".", "0">>}
ThebenValues ==
  { <<"2", "5", "0", "0", "0">>, <<"5">>, <<"1", "2", "3", "4", "5", "0">>,
    <<"-", "7">>, <<"1", ".", "5">>, <<"a", "b", "c">>, <<"1", "2", "x">>, << >> }

\* the body of the loop of theben.Client.getReadings for one reading r:
\* convertOBIS, parseValue, determineUnit and the reading stored, or the
\* continue that skips r
ThebenEntry ==
  /\ called = "theben.getReadings"
  /\ LET obis  == convertOBIS(args.OBIS)
          value == parseValue(args.Value, obis)
     IN IF obis = << >> \/ value.err
        THEN Return([done |-> TRUE, stored |-> FALSE, failed |-> FALSE, obis |-> obis,
                     reading |-> Reading(Dec(0, 0), UnitNone, << >>)])
        ELSE Return([done |-> TRUE, stored |-> TRUE, failed |-> FALSE, obis |-> obis,
                     reading |-> Reading(value.val, ThebenDetermineUnit(obis), obis)])

\* the code strings given to determineUnit: C.D.E for the values of C of the
\* switch and others, with and without the medium prefix, and other strings
CodeFirsts ==
  { <<"1">>, <<"2">>, <<"1", "4">>, <<"1", "6">>, <<"3", "1">>, <<"3", "2">>,
    <<"3", "6">>, <<"5", "1">>, <<"5", "2">>, <<"5", "6">>, <<"7", "1">>,
    <<"7", "2">>, <<"7", "6">>, <<"9", "9">> }
CodeSeconds == { <<"7">>, <<"8">>, <<"9">> }
MediumPrefix == <<"1", "-", "0", ":">>
CodeStrings ==
  LET bare == {c \o <<".">> \o d \o <<".", "0">> : c \in CodeFirsts, d \in CodeSeconds}
  IN bare \cup {MediumPrefix \o b : b \in bare}
     \cup { << >>, <<"1", "6">>, <<"1", "6", ".", "7">>, <<".", "8", ".">>,
            MediumPrefix, <<"O", "B", "I", "S">>,
            <<"a", ":", "1", ".", "8", ".", "0", ":", "3", "1", ".", "7", ".", "0">> }

\* the call c.determineUnit(obis) of the theben client
ThebenDetermineUnitCall ==
  /\ called = "theben.determineUnit"
  /\ Return([done |-> TRUE, unit |-> ThebenDetermineUnit(args.obis)])

\* the call c.determineUnit(obis) of the ppc client
PpcDetermineUnitCall ==
  /\ called = "ppc.determineUnit"
  /\ Return([done |-> TRUE, unit |-> PpcDetermineUnit(args.obis)])

\* the codes given to obis.Description: the registry constants and others
DescribedCodes ==
  {p[1] : p \in descriptions}
  \cup { <<"9", "9", ".", "9", "9", ".", "9", "9">>, << >>, <<"1", "6", ".", "7">>,
         MediumPrefix \o PowerActive, <<"O", "B", "I", "S">>, <<"1", ".", "8", ".", "1">> }

\* the call obis.Description(code)
DescriptionCall ==
  /\ called = "obis.Description"
  /\ Return([done |-> TRUE, desc |-> Description(args.code)])

\* the arguments given to the constructors, and what DiscoverGatewayURI
\* returns: an error, or the URI of the gateway found
GatewayURIs == { << >>, <<"g", "w">>, <<"h", "t", "t", "p", ":", "/", "/", "g", "w">>, <<"h", "t", "t", "p", "s", ":", "/", "/", "g", "w">> }
Usernames == {"", "admin"}
Passwords == {"", "pass"}
GatewayDiscoveries ==
  { [err |-> TRUE, uri |-> << >>], [err |-> FALSE, uri |-> <<"h", "t", "t", "p", "s", ":", "/", "/", "f", "o", "u", "n", "d">>] }

\* the call emhcasa.NewClient(uri, user, password, meterID)
EmhNewClientCall ==
  /\ called = "emhcasa.NewClient"
  /\ \E d \in GatewayDiscoveries :
       Return(EmhNewClient(args.uri, args.user, args.password, args.meterID, d))

\* the call theben.NewClient(baseURL, username, password)
ThebenNewClientCall ==
  /\ called = "theben.NewClient"
  /\ Return(ThebenNewClient(args.uri, args.user, args.password))

\* the call ppc.NewClient(baseURL, username, password)
PpcNewClientCall ==
  /\ called = "ppc.NewClient"
  /\ Return(PpcNewClient(args.uri, args.user, args.password))

\* what a GetMeterValues returns: an error and no map, or the map
ValuesError(kind) == [done |-> TRUE, err |-> kind, values |-> EmptyReadings]
ValuesOk(values) == [done |-> TRUE, err |-> "", values |-> values]

\* the loop of the v1 GetMeterValues over reading.Values: an entry whose
\* value does not parse or whose unit is none of the five is not stored
RECURSIVE AssembleV1(_, _)
AssembleV1(items, values) ==
  IF Len(items) = 0 THEN values
  ELSE LET item == Head(items)
           code == convertToOBIS(item.LogicalName)
           raw  == ParseFloat(item.Value)
           val  == Scale(raw.val, item.Scaler)
       IN IF code.err \/ raw.err THEN AssembleV1(Tail(items), values)
          ELSE IF item.Unit = UnitWh
            THEN AssembleV1(Tail(items), Put(values, code.obis, Scale(val, -3)))
          ELSE IF item.Unit \in {UnitWatt, UnitAmpere, UnitVolt, UnitHertz}
            THEN AssembleV1(Tail(items), Put(values, code.obis, val))
          ELSE AssembleV1(Tail(items), values)

\* the v1 emhcasa.Client.GetMeterValues with the response of the gateway
GetMeterValuesV1(id, response) ==
  IF id = "" THEN ValuesError("nometerid")
  ELSE IF response.st # "ok" THEN ValuesError("readings")
  ELSE LET values == AssembleV1(response.body, EmptyReadings)
       IN IF DOMAIN values = {} THEN ValuesError("noreadings") ELSE ValuesOk(values)

\* the v2 emhcasa.Client.GetMeterValues of a client whose meter ID is set:
\* GetReadings issues the readings request alone, and the values of the
\* Information are copied to the map
GetMeterValues(id, response) ==
  LET got == IF response.st = "ok" THEN EmhInformation(response.body)
             ELSE ErrRet("readings", "transport")
  IN IF got.err THEN ValuesError(got.kind)
     ELSE ValuesOk([k \in DOMAIN got.info.Readings |-> got.info.Readings[k].Value])

\* the responses of the gateway to the readings request
ExtendedResponses ==
  {[st |-> "ok", body |-> b] : b \in SeqsUpTo(MeterValues, MaxEntries)}
  \cup {[st |-> "fail", body |-> << >>]}

\* the call GetMeterValues() of the v1 client
GetMeterValuesV1Call ==
  /\ called = "v1.GetMeterValues"
  /\ Return(GetMeterValuesV1(args.meterID, args.response))

\* the call GetMeterValues() of the v2 client
GetMeterValuesCall ==
  /\ called = "v2.GetMeterValues"
  /\ Return(GetMeterValues(args.meterID, args.response))

\* the calls of functions on their own
Calls ==
  {[fn |-> f, args |-> [meterID |-> i, response |-> r]] :
     f \in {"v1.GetMeterValues", "v2.GetMeterValues"}, i \in MeterIds, r \in ExtendedResponses}
  \cup
  {[fn |-> f, args |-> [uri |-> u, user |-> n, password |-> w, meterID |-> i]] :
     f \in {"emhcasa.NewClient", "theben.NewClient", "ppc.NewClient"},
     u \in GatewayURIs, n \in Usernames, w \in Passwords, i \in {"", "m1"}}
  \cup
  {[fn |-> "obis.Description", args |-> [code |-> c]] : c \in DescribedCodes}
  \cup
  {[fn |-> f, args |-> [obis |-> o]] :
     f \in {"theben.determineUnit", "ppc.determineUnit"}, o \in CodeStrings}
  \cup
  {[fn |-> "theben.getReadings", args |-> [OBIS |-> o, Value |-> v]] :
     o \in ThebenDeviceCodes, v \in ThebenValues}

\* the call c.convertReading(inItem, obis) of GetReadings
Normalize ==
  /\ called = "convertReading" /\ ~outReading.done
  /\ ~convertToOBIS(inItem.LogicalName).err
  /\ outReading' = [done |-> TRUE,
                    reading |-> convertReading(inItem, convertToOBIS(inItem.LogicalName).obis)]
  /\ UNCHANGED <<vendor, meterID, call, conc, inHex, inName, inItem, outObis,
                 called, args, res>>

\* the call convertToOBIS(inName)
Convert ==
  /\ called = "convertToOBIS" /\ ~outObis.done
  /\ outObis' = [done |-> TRUE, err |-> convertToOBIS(inName).err,
                 obis |-> convertToOBIS(inName).obis]
  /\ UNCHANGED <<vendor, meterID, call, conc, inHex, inName, inItem, outReading,
                 called, args, res>>

InitPure ==
  /\ vendor = "emhcasa" /\ meterID = ""
  /\ NoCall
  /\ thrPc = [t \in Threads |-> "idle"] /\ thrCands = [t \in Threads |-> 0]
  /\ ranDiscovery = {} /\ wroteIdentity = {}
  /\ \/ /\ called = "convertToOBIS" /\ args = << >>
        /\ inHex \in HexParts
        /\ \E sfx \in NameSuffixes : inName = inHex \o sfx
        /\ inItem = NoItem
     \/ /\ called = "convertReading" /\ args = << >>
        /\ inHex = << >> /\ inName = << >>
        /\ inItem \in Items
     \/ /\ inHex = << >> /\ inName = << >> /\ inItem = NoItem
        /\ \E c \in Calls : called = c.fn /\ args = c.args
  /\ outObis = NoObis /\ outReading = NoReading /\ res = NoResult

NextPure ==
  \/ Convert
  \/ Normalize
  \/ ThebenEntry
  \/ ThebenDetermineUnitCall
  \/ PpcDetermineUnitCall
  \/ DescriptionCall
  \/ EmhNewClientCall
  \/ ThebenNewClientCall
  \/ PpcNewClientCall
  \/ GetMeterValuesV1Call
  \/ GetMeterValuesCall

SpecPure == InitPure /\ [][NextPure]_vars

\* ------------------------------------------------------------ properties
\* StandardCode: three non-empty runs of decimal digits separated by two dots
IsStandardCode(k) ==
  LET parts == Split(k, ".")
  IN /\ Len(parts) = 3
     /\ \A i \in 1..3 : Len(parts[i]) > 0 /\ \A j \in 1..Len(parts[i]) : DigitVal(parts[i][j]) >= 0

LastReq == IF Len(reqs) = 0 THEN "none" ELSE reqs[Len(reqs)]
LastReqOk == Len(reqs) > 0 /\ Len(reqs) \notin failed

\* a GetReadings call has returned
Returned == pc = "done" /\ op = "GetReadings"
\* ... after its readings response arrived
Fetched == Returned /\ LastReq = "readings" /\ LastReqOk

\* C1: a GetReadings that returns without error returns an Information with
\* at least one reading, whatever the facade and the device response
C1_NoEmptyInformation ==
  (Returned /\ ~ret.err) => (ret.hasInfo /\ DOMAIN ret.info.Readings # {})

\* C2: every key of the Readings of a returned Information is a StandardCode
C2_KeysAreStandardCodes ==
  (Returned /\ ret.hasInfo) => \A k \in DOMAIN ret.info.Readings : IsStandardCode(k)

\* the code an entry converts to (<< >> when it does not convert) and its raw value
EntryCode(e) ==
  CASE vendor = "emhcasa" ->
         IF convertToOBIS(e.LogicalName).err THEN << >> ELSE convertToOBIS(e.LogicalName).obis
    [] vendor = "theben" -> convertOBIS(e.OBIS)
    [] OTHER -> IF IsStandardCode(e.obis) THEN e.obis ELSE << >>
EntryValue(e) == IF vendor = "ppc" THEN e.value ELSE e.Value

\* three entries with distinct valid codes, exactly one value not numeric
ThreeOneUnparsable ==
  /\ Len(entries) = 3
  /\ \A i \in 1..3 : EntryCode(entries[i]) # << >>
  /\ \A i, j \in 1..3 : i # j => EntryCode(entries[i]) # EntryCode(entries[j])
  /\ Cardinality({i \in 1..3 : ParseFloat(EntryValue(entries[i])).err}) = 1

\* C3: fed three entries with distinct valid codes of which one has an
\* unparsable value, GetReadings returns exactly two readings and no error
C3_UnparsableValueSkipped ==
  (Fetched /\ ThreeOneUnparsable) =>
    (~ret.err /\ ret.hasInfo /\ Cardinality(DOMAIN ret.info.Readings) = 2)

\* C5: a GetReadings call one of whose requests failed returns an error and
\* no Information
C5_FailedFetchFailsCall ==
  (Returned /\ failed # {}) => (ret.err /\ ~ret.hasInfo)

\* C6: a GetReadings or DiscoverMeterID call whose context was cancelled
\* while a request was in flight attempts no further request and returns an
\* error whose cause is the cancellation
C6_CancellationPropagates ==
  (pc = "done" /\ op \in {"GetReadings", "DiscoverMeterID"} /\ cancelIdx # 0) =>
    (ret.err /\ ret.cause = "cancel" /\ Len(reqs) = cancelIdx)

\* the Theben preference predicate
Preferred(up) == up.TafState = "running" /\ up.TafNumber = "7"

\* the call ended in its discovery, the user-info request having been answered
ThebenSelected == vendor = "theben" /\ pc = "done" /\ LastReq = "list" /\ LastReqOk

\* C7: over the listed usage points, discovery yields the first preferred
\* one; the first one when none is preferred; an error when there is none
\* (DiscoverMeterID and MeterID, and GetReadings when the selection fails)
C7_DiscoverySelection ==
  ThebenSelected =>
    IF \E i \in 1..Len(listed) : Preferred(listed[i])
    THEN /\ disc = "ok"
         /\ \E i \in 1..Len(listed) :
              /\ Preferred(listed[i]) /\ meterID = listed[i].ID
              /\ \A j \in 1..(i-1) : ~Preferred(listed[j])
    ELSE IF Len(listed) > 0
    THEN disc = "ok" /\ meterID = listed[1].ID
    ELSE /\ disc = "err" /\ meterID = preID
         /\ (op # "MeterID" => ret.err /\ ret.kind = "discover")

\* C7, witness: [A(false), B(true), C(false)] was listed and B is selected
C7_Witness ==
  /\ ThebenSelected /\ Len(listed) = 3
  /\ ~Preferred(listed[1]) /\ Preferred(listed[2]) /\ ~Preferred(listed[3])
  /\ listed[1].ID # listed[2].ID
  /\ disc = "ok" /\ meterID = listed[2].ID

\* the scan of the contracts by the EMH CASA discovery has ended (the
\* listing succeeded, every contract the scan reached has been fetched)
EmhScanEnded ==
  /\ vendor = "emhcasa" /\ pc = "done"
  /\ LastReq = "detail" /\ 1 \notin failed
\* ... and every contract was fetched and has no sensor domain
EmhNoDomains ==
  /\ EmhScanEnded /\ Len(listed) > 0
  /\ \A i \in 1..Len(listed) :
       listed[i].st = "ok" /\ listed[i].contract.SensorDomains = << >>

C9_DiscoveryFailureKeepsUnset ==
  (op = "GetReadings" /\ preID = "" /\ disc = "err") =>
    /\ pc = "done" /\ ret.err /\ ret.kind = "discover" /\ ~ret.hasInfo
    /\ \A i \in 1..Len(reqs) : reqs[i] # "readings"
    /\ meterID = ""

\* C9, witness: such a call, its listing having been answered
C9_Witness ==
  /\ op = "GetReadings" /\ preID = "" /\ disc = "err" /\ pc = "done"
  /\ LastReq \in {"list", "detail"} /\ 1 \notin failed

\* C10: while the identity is set, a step of a GetReadings call neither
\* changes it nor attempts a candidate-listing request, and whatever changes
\* it is a SetMeterID or a DiscoverMeterID
C10_IdentityCached ==
  [][ meterID # "" =>
        /\ (op' = "GetReadings" =>
              /\ meterID' = meterID
              /\ (Len(reqs') > Len(reqs) => reqs'[Len(reqs')] \notin {"list", "detail"}))
        /\ (meterID' # meterID => op' \in {"SetMeterID", "DiscoverMeterID"}) ]_vars

\* C10, witness: a GetReadings call with the identity set has returned an
\* Information, having issued its readings request only
C10_Witness ==
  /\ Returned /\ preID # "" /\ ret.hasInfo /\ meterID = preID
  /\ ret.info.Name = preID
  /\ \A i \in 1..Len(reqs) : reqs[i] \in {"meta", "readings"}

\* C4: among concurrent GetReadings calls on a client whose identity is
\* unset, at most one runs the discovery and at most one stores the identity
C4_DiscoverySerialized ==
  Cardinality(ranDiscovery) <= 1 /\ Cardinality(wroteIdentity) <= 1

\* C12: the readings request of a GetReadings call names the identity of the
\* client, which is the identity the call began with when that was set
C12_ReadingsTargetIdentity ==
  (Returned /\ LastReq = "readings") =>
    (target = meterID /\ (preID # "" => target = preID))

\* the requests of the discovery, of the device metadata
IsDiscoveryReq(k) == k \in {"list", "detail"}

\* C11, as claimed: in a GetReadings call no metadata or readings request
\* precedes a request of the discovery
C11_AsClaimed ==
  op = "GetReadings" =>
    \A i, j \in 1..Len(reqs) :
      (i < j /\ IsDiscoveryReq(reqs[j])) => reqs[i] \notin {"meta", "readings"}

\* C11, amended: in a GetReadings call the readings request is the last
\* request and follows a successful discovery when the call began with the
\* identity unset; the discovery runs only then; emhcasa and ppc fetch no
\* metadata, theben fetches it with its first request, before the discovery
C11_StepOrder ==
  op = "GetReadings" =>
    /\ \A i \in 1..Len(reqs) :
         /\ reqs[i] = "readings" => (i = Len(reqs) /\ (preID = "" => disc = "ok"))
         /\ IsDiscoveryReq(reqs[i]) => preID = ""
         /\ reqs[i] = "meta" <=> (vendor = "theben" /\ i = 1)
    /\ (preID = "" /\ LastReq = "readings") =>
         \E i \in 1..Len(reqs) : IsDiscoveryReq(reqs[i])

\* C11, witness: a Theben call that fetched the metadata, discovered the
\* identity and fetched the readings, in this order
C11_Witness ==
  /\ Returned /\ vendor = "theben" /\ ret.hasInfo
  /\ reqs = <<"meta", "list", "readings">>

\* the hex part is twelve hexadecimal digits
TwelveHexDigits(h) == Len(h) = 12 /\ \A i \in 1..12 : HexVal(h[i]) >= 0
\* the value of the byte written at positions i and i+1 of h
ByteAt(h, i) == 16 * HexVal(h[i]) + HexVal(h[i + 1])
\* s is the decimal numeral of n, without sign or leading zero
IsNumeralOf(s, n) ==
  /\ Len(s) > 0 /\ \A i \in 1..Len(s) : DigitVal(s[i]) >= 0
  /\ (Len(s) > 1 => s[1] # "0")
  /\ DecNum(s) = n

C14_MalformedRejected ==
  (outObis.done /\ (Len(inHex) # 12 \/ \E i \in 5..10 : HexVal(inHex[i]) < 0)) =>
    (outObis.err /\ outObis.obis = << >>)

\* C15: a name with a suffix after the hex part converts as the hex part
\* alone does, to the same code or to an error alike
C15_SuffixIgnored ==
  (outObis.done /\ Len(inHex) = 12 /\ inName # inHex) =>
    /\ outObis.err = convertToOBIS(inHex).err
    /\ outObis.obis = convertToOBIS(inHex).obis

\* C15, witness: 0100100700FF.1 has been converted to 16.7.0
C15_Witness ==
  /\ outObis.done /\ inName = LnPower \o <<".", "1">>
  /\ ~outObis.err /\ outObis.obis = <<"1", "6", ".", "7", ".", "0">>

\* the code of an entry converts: convertToOBIS returns no error (emhcasa),
\* convertOBIS knows the device code (theben)
Converts(e) ==
  IF vendor = "emhcasa" THEN ~convertToOBIS(e.LogicalName).err
  ELSE convertOBIS(e.OBIS) # << >>

\* C16: an entry whose code does not convert is skipped and changes nothing
\* else: the call returns what it returns for the entries without it
C16_MalformedEntrySkipped ==
  (Fetched /\ vendor \in {"emhcasa", "theben"}) =>
    ret = IF vendor = "emhcasa" THEN EmhInformation(SelectSeq(entries, Converts))
          ELSE ThebenInformation(SelectSeq(entries, Converts))

\* C16, witness: of three entries the second does not convert, and the
\* Information returned holds the readings of the other two
C16_Witness ==
  /\ Fetched /\ vendor \in {"emhcasa", "theben"} /\ Len(entries) = 3
  /\ Converts(entries[1]) /\ ~Converts(entries[2]) /\ Converts(entries[3])
  /\ ret.hasInfo /\ Cardinality(DOMAIN ret.info.Readings) = 2

\* the key an entry is stored under, whether the assembler of the client
\* stores it, and the reading it stores for it (emhcasa skips no entry for
\* its value; theben and ppc skip an entry whose value does not parse, ppc
\* one with an empty cell)
KeyOf(e) ==
  CASE vendor = "emhcasa" -> convertToOBIS(e.LogicalName).obis
    [] vendor = "theben" -> convertOBIS(e.OBIS)
    [] OTHER -> e.obis
Stored(e) ==
  CASE vendor = "emhcasa" -> ~convertToOBIS(e.LogicalName).err
    [] vendor = "theben" ->
         convertOBIS(e.OBIS) # << >> /\ ~Sscanf(e.Value).err
    [] OTHER -> e.obis # << >> /\ e.value # << >> /\ ~ParseFloat(e.value).err
BuiltFrom(e) ==
  CASE vendor = "emhcasa" -> convertReading(e, KeyOf(e))
    [] vendor = "theben" ->
         Reading(parseValue(e.Value, KeyOf(e)).val, ThebenDetermineUnit(KeyOf(e)), KeyOf(e))
    [] OTHER -> Reading(ParseFloat(e.value).val, PpcDetermineUnit(e.obis), e.obis)
\* the last entry stored under k
LastStored(k) ==
  CHOOSE i \in 1..Len(entries) :
    /\ Stored(entries[i]) /\ KeyOf(entries[i]) = k
    /\ \A j \in (i + 1)..Len(entries) : ~(Stored(entries[j]) /\ KeyOf(entries[j]) = k)

\* C17: the readings hold one reading for each code a stored entry has, and
\* it is the reading of the last such entry in the order of the response
C17_LastWriteWins ==
  Fetched =>
    LET codes == {KeyOf(entries[i]) : i \in {j \in 1..Len(entries) : Stored(entries[j])}}
    IN IF ret.hasInfo
       THEN /\ DOMAIN ret.info.Readings = codes
            /\ \A k \in codes : ret.info.Readings[k] = BuiltFrom(entries[LastStored(k)])
       ELSE codes = {}

\* C17, witness: two stored entries have the same code and differ in their
\* reading, and the reading returned is that of the later one
C17_Witness ==
  /\ Fetched /\ ret.hasInfo /\ Len(entries) = 2
  /\ Stored(entries[1]) /\ Stored(entries[2])
  /\ KeyOf(entries[1]) = KeyOf(entries[2])
  /\ BuiltFrom(entries[1]) # BuiltFrom(entries[2])
  /\ ret.info.Readings[KeyOf(entries[2])] = BuiltFrom(entries[2])

\* the identity the discovery of the call found, from the candidates it received
Discovered ==
  CASE vendor = "emhcasa" -> listed[Len(listed)].contract.SensorDomains[1]
    [] vendor = "theben" ->
         IF \E i \in 1..Len(listed) : Preferred(listed[i])
         THEN listed[CHOOSE i \in 1..Len(listed) :
                       Preferred(listed[i]) /\ \A j \in 1..(i - 1) : ~Preferred(listed[j])].ID
         ELSE listed[1].ID
    [] OTHER -> extractMeterID(listed)

\* C18: MeterID() returns the identity of the client and no error.  With the
\* identity set it issues no request; with the identity unset it lists the
\* candidates once, and the identity is then the discovered one when the
\* discovery succeeded and still empty when it failed
C18_MeterIDSwallowsErrors ==
  (op = "MeterID" /\ pc = "done") =>
    /\ ~ret.err /\ ~ret.hasInfo /\ ret.id = meterID
    /\ preID # "" => (reqs = << >> /\ meterID = preID)
    /\ preID = "" =>
         /\ Cardinality({i \in 1..Len(reqs) : reqs[i] = "list"}) = 1
         /\ disc \in {"ok", "err"}
         /\ disc = "err" => meterID = ""
         /\ disc = "ok" => meterID = Discovered

\* C18, witness: MeterID() on an unset identity has discovered and returned one
C18_Witness ==
  /\ op = "MeterID" /\ pc = "done" /\ preID = "" /\ disc = "ok"
  /\ ret.id = "m1" /\ meterID = "m1"

\* C19: the contract the EMH CASA discovery takes the meter ID from is a
\* TAF-1 contract, the first one listed, and the ID is its first sensor domain
C19_DiscoveryFromTaf1 ==
  (vendor = "emhcasa" /\ pc = "done" /\ op \in {"DiscoverMeterID", "MeterID"}
     /\ disc = "ok") =>
    LET taf1(i) == listed[i].st = "ok" /\ listed[i].contract.TafType = "TAF-1"
    IN /\ taf1(Len(listed))
       /\ \A j \in 1..(Len(listed) - 1) : ~taf1(j)
       /\ meterID = listed[Len(listed)].contract.SensorDomains[1]

RECURSIVE Pow10(_)
Pow10(n) == IF n = 0 THEN 1 ELSE 10 * Pow10(n - 1)
\* a = b for decimals a and b, whatever their representation
SameNumber(a, b) ==
  LET lo == IF a.e < b.e THEN a.e ELSE b.e
  IN a.m * Pow10(a.e - lo) = b.m * Pow10(b.e - lo)
\* the example (value, scaler, unit) normalizes to m * 10^e
Example(value, scaler, unit, m, e) ==
  (inItem.Value = value /\ inItem.Scaler = scaler /\ inItem.Unit = unit) =>
    outReading.reading.Value = [m |-> m, e |-> e]

\* C20: the value convertReading stores is the raw value times ten to the
\* scaler, divided by 1000 when the unit tag is 30 (Wh) and only then
C20_ExponentNormalization ==
  outReading.done =>
    LET raw    == ParseFloat(inItem.Value).val
        stored == outReading.reading.Value
        shift  == IF inItem.Unit = 30 THEN 3 ELSE 0
    IN /\ SameNumber([m |-> stored.m, e |-> stored.e + shift],
                     [m |-> raw.m, e |-> raw.e + inItem.Scaler])
       /\ Example(<<"2", "5", "0", "0">>, 0, 27, 25, 2)
       /\ Example(<<"5">>, 2, 27, 5, 2)
       /\ Example(<<"1", "2", "3", "4", "5", "0">>, 0, 30, 12345, -2)
       /\ Example(<<"1", "5", "3">>, -1, 33, 153, -1)

\* C20, witness: ("123450", 0, Wh) has been normalized to 123.45
C20_Witness ==
  /\ outReading.done
  /\ inItem.Value = <<"1", "2", "3", "4", "5", "0">> /\ inItem.Scaler = 0 /\ inItem.Unit = 30
  /\ outReading.reading.Value = [m |-> 12345, e |-> -2]

\* the value string is a decimal numeral
IsNumeric(v) == ~ParseFloat(v).err
\* the second segment of the code after the medium prefix "1-0:" is "8"
IsEnergyCode(obis) ==
  LET segs == Split(SubSeq(obis, 5, Len(obis)), ".")
  IN Len(segs) >= 2 /\ segs[2] = <<"8">>
\* the device code is one of the table, in whatever case
InThebenTable(hex) == \E p \in ThebenMappings : ToLower(TrimSpace(hex)) = p[1]

\* C21: for a code of the Theben table and a numeric raw value v the value
\* stored is v / 1000 for an energy code and v / 10000 for any other code
C21_FixedDivisor ==
  (called = "theben.getReadings" /\ res.done
     /\ InThebenTable(args.OBIS) /\ IsNumeric(args.Value)) =>
    /\ res.stored
    /\ LET shift == IF IsEnergyCode(res.obis) THEN 3 ELSE 4
           stored == res.reading.Value
           raw    == ParseFloat(args.Value).val
       IN SameNumber([m |-> stored.m, e |-> stored.e + shift], raw)
    /\ res.reading.Unit = UnitWh <=> IsEnergyCode(res.obis)

\* C21, witness: 25000 under 0100100700ff has been stored as 2.5
C21_Witness ==
  /\ called = "theben.getReadings" /\ res.done /\ res.stored
  /\ args.OBIS = ThebenHex(<<"1", "0">>, "7")
  /\ args.Value = <<"2", "5", "0", "0", "0">>
  /\ res.reading.Value = [m |-> 25, e |-> -1]

\* C22: convertReading returns a reading for every unit tag; its unit is
\* Watt for 27, Wh for 30, Ampere for 33, Volt for 35, Hertz for 44 and the
\* zero Unit, which is none of these, for every other tag
C22_NumericTagUnit ==
  outReading.done =>
    LET tag  == inItem.Unit
        unit == outReading.reading.Unit
    IN /\ tag = 27 => unit = UnitWatt
       /\ tag = 30 => unit = UnitWh
       /\ tag = 33 => unit = UnitAmpere
       /\ tag = 35 => unit = UnitVolt
       /\ tag = 44 => unit = UnitHertz
       /\ tag \notin {27, 30, 33, 35, 44} =>
            (unit = UnitNone /\ unit \notin {UnitWatt, UnitWh, UnitAmpere, UnitVolt, UnitHertz})

\* C22, witness: a value with the tag 99 has been converted to a reading of
\* the zero Unit
C22_Witness ==
  /\ outReading.done /\ inItem.Unit = 99
  /\ outReading.reading.Unit = UnitNone
  /\ outReading.reading.Value = ParseFloat(inItem.Value).val
  /\ inItem.Scaler = 0

\* the unit the table of the claim gives for the first two segments
UnitByPattern(segs) ==
  IF Len(segs) >= 2 /\ segs[2] = <<"8">> THEN UnitWh
  ELSE IF Len(segs) >= 2 /\ segs[2] = <<"7">> THEN
    (IF segs[1] \in {<<"1", "6">>, <<"3", "6">>, <<"5", "6">>, <<"7", "6">>} THEN UnitWatt
     ELSE IF segs[1] \in {<<"3", "1">>, <<"5", "1">>, <<"7", "1">>} THEN UnitAmpere
     ELSE IF segs[1] \in {<<"3", "2">>, <<"5", "2">>, <<"7", "2">>} THEN UnitVolt
     ELSE IF segs[1] = <<"1", "4">> THEN UnitHertz
     ELSE UnitWatt)
  ELSE UnitWatt
\* the segments C, D, E of a code string, with or without a medium prefix
CodeSegments(code) ==
  IF IndexOf(code, ":") = 0 THEN Split(code, ".")
  ELSE Split(SubSeq(code, IndexOf(code, ":") + 1, Len(code)), ".")
\* the segments each client reads: ppc those of the whole string, theben
\* those of what stands between the first colon and the next (none when
\* the string has no colon)
SegmentsRead(fn, code) ==
  IF fn = "ppc.determineUnit" THEN Split(code, ".")
  ELSE IF Len(Split(code, ":")) < 2 THEN << >>
  ELSE Split(Split(code, ":")[2], ".")
IsDetermineUnit == called \in {"theben.determineUnit", "ppc.determineUnit"}

\* C23, as claimed: both clients give every code string the unit of the
\* table for its segments C and D
C23_AsClaimed ==
  (IsDetermineUnit /\ res.done) => res.unit = UnitByPattern(CodeSegments(args.obis))

\* C23, amended: each client gives every code string, without failing, the
\* unit of the table for the first two segments it reads: ppc the segments
\* of the whole string, theben those of the text after the medium prefix,
\* and Watt for a string without a colon
C23_UnitByCodePattern ==
  (IsDetermineUnit /\ res.done) =>
    /\ res.unit = UnitByPattern(SegmentsRead(called, args.obis))
    /\ res.unit \in {UnitWatt, UnitWh, UnitAmpere, UnitVolt, UnitHertz}
    /\ (called = "theben.determineUnit" /\ IndexOf(args.obis, ":") = 0) => res.unit = UnitWatt

\* C23, witness: theben has given 1-0:14.7.0 the unit Hertz
C23_Witness ==
  /\ called = "theben.determineUnit" /\ res.done
  /\ args.obis = MediumPrefix \o <<"1", "4", ".", "7", ".", "0">>
  /\ res.unit = UnitHertz

\* two strings are the same but for the case of their letters
EqualFold(a, b) ==
  /\ Len(a) = Len(b)
  /\ \A i \in 1..Len(a) : a[i] = b[i] \/ UpperChar(a[i]) = b[i] \/ a[i] = UpperChar(b[i])
\* the device code without the blanks around it
Unpadded(hex) == TrimSpace(hex)

HasStandardCode(row) == IsStandardCode(row.obis)

\* C25: a table row whose code cell is not a StandardCode is dropped: the
\* ppc fetch returns what it returns for the rows without it
C25_NonStandardRowDropped ==
  (Fetched /\ vendor = "ppc") => ret = PpcInformation(SelectSeq(entries, HasStandardCode))

\* the 13 constants of the registry
RegistryCodes ==
  { EnergyImport, EnergyExport, PowerActive, PowerL1, PowerL2, PowerL3,
    CurrentL1, CurrentL2, CurrentL3, VoltageL1, VoltageL2, VoltageL3, Frequency }
\* what Description returns for a registry constant, and is not empty
Registered ==
  /\ \A p \in descriptions : args.code = p[1] => res.desc = p[2]
  /\ res.desc # << >>

\* C26, as claimed: for an unrecognized code Description returns
\* "Unknown code: " followed by the code
C26_AsClaimed ==
  (called = "obis.Description" /\ res.done) =>
    /\ Registered
    /\ args.code \notin RegistryCodes => res.desc = <<"U", "n", "k", "n", "o", "w", "n", " ", "c", "o", "d", "e", ":", " ">> \o args.code

\* C26, amended: Description returns the registered description for each of
\* the 13 registry constants and "Unknown OBIS code: " followed by the code
\* for every other code, and never the empty string
C26_DescriptionOrUnknown ==
  (called = "obis.Description" /\ res.done) =>
    /\ Registered
    /\ Cardinality(RegistryCodes) = 13
    /\ args.code \notin RegistryCodes => res.desc = <<"U", "n", "k", "n", "o", "w", "n", " ", "O", "B", "I", "S", " ", "c", "o", "d", "e", ":", " ">> \o args.code

\* C26, witness: Description has been asked for 99.99.99, a code outside the
\* registry, and has returned the message with that code
C26_Witness ==
  /\ called = "obis.Description" /\ res.done
  /\ args.code = <<"9", "9", ".", "9", "9", ".", "9", "9">>
  /\ SubSeq(res.desc, Len(res.desc) - 7, Len(res.desc)) = args.code
  /\ Len(res.desc) > 8

IsNewClient == called \in {"emhcasa.NewClient", "theben.NewClient", "ppc.NewClient"}

\* C27: a constructor given a gateway URI and an empty username or an empty
\* password returns the error "credentials are required" and no client
C27_CredentialsRequired ==
  (IsNewClient /\ res.done /\ args.uri # << >>
     /\ (args.user = "" \/ args.password = "")) =>
    /\ res.err = "credentials are required"
    /\ ~res.hasClient

\* C27, witness: theben.NewClient has refused a username without a password
C27_Witness ==
  /\ called = "theben.NewClient" /\ res.done
  /\ args.uri # << >> /\ args.user = "admin" /\ args.password = ""
  /\ res.err = "credentials are required" /\ ~res.hasClient

\* C28: with the meter ID set, the v2 GetMeterValues returns for every
\* response of the gateway the map or the failure the v1 GetMeterValues
\* returns for it
C28_LegacyValuesPreserved ==
  (called = "v2.GetMeterValues" /\ res.done) =>
    res = GetMeterValuesV1(args.meterID, args.response)

\* C29: in every Information a GetReadings returns, each reading carries the
\* key it is stored under and the quality Good, and the name is the
\* identity the client holds when the call returns
C29_ReadingsCarryKeyAndName ==
  (Returned /\ ret.hasInfo) =>
    /\ \A k \in DOMAIN ret.info.Readings :
         /\ ret.info.Readings[k].OBIS = k
         /\ ret.info.Readings[k].Quality = QualityGood
    /\ ret.info.Name = meterID

\* C29, witness: a theben GetReadings that discovered the identity has
\* returned an Information with two readings under that identity
C29_Witness ==
  /\ Returned /\ ret.hasInfo /\ vendor = "theben"
  /\ preID = "" /\ meterID # "" /\ ret.info.Name = meterID
  /\ Cardinality(DOMAIN ret.info.Readings) = 2

\* C30: once the discovery of a call has succeeded, the identity of the
\* client is not empty, whatever the identifying field of the candidate
C30_DiscoveredIdentityNonEmpty ==
  (op \in {"DiscoverMeterID", "GetReadings", "MeterID"} /\ disc = "ok") => meterID # ""

====
